---- MODULE Spec2Model ----
(***************************************************************************)
(* histdatacom: the command-line configuration layer (cli.py) and the      *)
(* stage pipeline driven by _HistDataCom.run (histdata_com.py).            *)
(*                                                                         *)
(* Strings are sequences of one-character strings, so that slicing,        *)
(* regular-expression matching, punctuation removal and int() are          *)
(* computed as Python computes them.  Python's None is the value None.     *)
(***************************************************************************)
EXTENDS Integers, Sequences, FiniteSets, TLC

\* ------------------------------------------------------------------ bounds
FirstYear == 1999
LastYear == 2002
NowYear == 2001
NowMonth == 6
NumRecords == 2
MaxAttempts == 2
PoolSize == 2
MaxRuns == 2

\* ----------------------------------------------------------------- strings
None == <<"None">>

Digits == {"0", "1", "2", "3", "4", "5", "6", "7", "8", "9"}

DigitVal(c) ==
    CASE c = "0" -> 0 [] c = "1" -> 1 [] c = "2" -> 2 [] c = "3" -> 3
      [] c = "4" -> 4 [] c = "5" -> 5 [] c = "6" -> 6 [] c = "7" -> 7
      [] c = "8" -> 8 [] c = "9" -> 9

DigitChar(d) ==
    CASE d = 0 -> "0" [] d = 1 -> "1" [] d = 2 -> "2" [] d = 3 -> "3"
      [] d = 4 -> "4" [] d = 5 -> "5" [] d = 6 -> "6" [] d = 7 -> "7"
      [] d = 8 -> "8" [] d = 9 -> "9"

\* f"{year}" of a four-digit year and "%m" of a month
YearStr(y) ==
    << DigitChar(y \div 1000), DigitChar((y \div 100) % 10),
       DigitChar((y \div 10) % 10), DigitChar(y % 10) >>

MonthStr(m) == << DigitChar(m \div 10), DigitChar(m % 10) >>

\* the characters of the class [-_.: ]
Punct == {"-", "_", ".", ":", " "}

AllDigits(s) == \A i \in 1..Len(s) : s[i] \in Digits

\* str.lower on the letters the keywords use
LowerChar(c) ==
    CASE c = "N" -> "n" [] c = "O" -> "o" [] c = "W" -> "w" [] c = "S" -> "s"
      [] c = "T" -> "t" [] c = "A" -> "a" [] c = "R" -> "r" [] OTHER -> c

Lower(s) == [i \in 1..Len(s) |-> LowerChar(s[i])]

StrNow == <<"n", "o", "w">>
StrStart == <<"s", "t", "a", "r", "t">>

\* Python truthiness of a str-or-None value
Truthy(v) == v # None /\ v # <<>>

\* int(s): the digits' value; ValueError on anything else
IntOk(s) == s # None /\ Len(s) > 0 /\ AllDigits(s)

RECURSIVE IntOf(_)
IntOf(s) ==
    IF Len(s) = 0 THEN 0
    ELSE 10 * IntOf(SubSeq(s, 1, Len(s) - 1)) + DigitVal(s[Len(s)])

\* re.sub("[-_.: ]", "", s) if s is not None else ""
replace_date_punct(s) ==
    IF s = None THEN <<>> ELSE SelectSeq(s, LAMBDA c : c \notin Punct)

\* the accepted shapes of a -s / -e value
yearmonth_format_ok(s) ==
    \/ /\ Len(s) = 7
       /\ AllDigits(SubSeq(s, 1, 4))
       /\ s[5] \in Punct
       /\ AllDigits(SubSeq(s, 6, 7))
    \/ Len(s) = 6 /\ AllDigits(s)
    \/ Len(s) = 4 /\ AllDigits(s)
    \/ Lower(s) = StrNow
    \/ Lower(s) = StrStart
    \/ s = <<>>

\* validate_yearmonth_format: the normalised value, or the exit
validate_yearmonth_format(s) ==
    IF yearmonth_format_ok(s)
    THEN [out |-> "ok", val |-> replace_date_punct(s)]
    ELSE [out |-> "exit", val |-> s]

\* histdatacom.utils helpers used by cli.py
get_year_from_datemonth(s) ==
    IF s = None THEN <<>>
    ELSE SubSeq(s, 1, IF Len(s) < 4 THEN Len(s) ELSE 4)

get_month_from_datemonth(s) ==
    IF s # None /\ Len(s) > 4 THEN SubSeq(s, Len(s) - 1, Len(s)) ELSE <<>>

get_current_datemonth_gmt_plus5 == YearStr(NowYear) \o MonthStr(NowMonth)

\* ------------------------------------------------- cli.py: the date checks
\* Each check maps the namespace's (start_yearmonth, end_yearmonth) to an
\* outcome: "ok" with the pair it leaves in the namespace, "exit" when it
\* reaches exit_on_datetime_error, "crash" on an uncaught exception.
\* "err" names the error text the ValueError carries ("" when none).
Ret(o, s, e) == [out |-> o, err |-> "", start |-> s, end |-> e]

Exit(tag, s, e) == [out |-> "exit", err |-> tag, start |-> s, end |-> e]

Crash(tag, s, e) == [out |-> "crash", err |-> tag, start |-> s, end |-> e]

check_for_start_in_yearmonth(s, e) ==
    IF Truthy(s) /\ s = StrStart
    THEN IF Truthy(e)
         THEN IF e = StrStart
              THEN Exit("end_yearmonth_cannot_be_start", s, e)
              ELSE Ret("ok", YearStr(2000) \o MonthStr(1), e)
         ELSE Exit("start_must_have_end", s, e)
    ELSE Ret("ok", s, e)

\* With a falsy start the local end_yearmonth is never bound and the final
\* return raises UnboundLocalError, which no handler catches.
check_for_now_in_yearmonth(s, e) ==
    IF Truthy(s)
    THEN IF s = StrNow
         THEN Ret("ok", get_current_datemonth_gmt_plus5, None)
         ELSE IF Truthy(e) /\ e = StrNow
              THEN Ret("ok", s, get_current_datemonth_gmt_plus5)
              ELSE Ret("ok", s, e)
    ELSE Crash("UnboundLocalError", s, e)

check_cli_start_yearmonth(s, e) ==
    LET start_year == get_year_from_datemonth(s)
        start_month == get_month_from_datemonth(s)
    IN  IF ~Truthy(start_month)
        THEN IF Truthy(e)
             THEN IF ~Truthy(start_year)
                  THEN Exit("no_start_yearmonth", s, e)
                  ELSE Exit("no_end_yearmonth", s, e)
             ELSE Ret("ok", start_year \o <<"0", "0">>, None)
        ELSE IF start_month = <<"0", "0">>
             THEN Exit("start_month", s, e)
             ELSE IF ~IntOk(start_month)
                  THEN Exit("int_start_month", s, e)
                  ELSE IF IntOf(start_month) > 12
                       THEN Exit("start_month_greater_than_12", s, e)
                       ELSE Ret("ok", s, e)

check_cli_end_yearmonth(s, e) ==
    IF Truthy(e)
    THEN LET end_year == get_year_from_datemonth(e)
             end_month == get_month_from_datemonth(e)
         IN  IF Truthy(end_year) /\ ~Truthy(end_month)
             THEN Exit("no_endmonth", s, e)
             ELSE IF end_month = <<"0", "0">>
                  THEN Exit("endmonth_cannot_be_zero", s, e)
                  ELSE IF ~IntOk(end_month)
                       THEN Exit("int_end_month", s, e)
                       ELSE IF IntOf(end_month) > 12
                            THEN Exit("end_month_greater_than_12", s, e)
                            ELSE Ret("ok", s, e)
    ELSE Ret("ok", s, e)

\* variant: the same-month comparison never raises
check_for_same_start_yearmonth_off(s, e) == Ret("ok", s, e)

check_for_same_start_yearmonth(s, e) ==
    IF get_year_from_datemonth(s) \o <<"_">> \o get_month_from_datemonth(s)
         = get_year_from_datemonth(e) \o <<"_">> \o get_month_from_datemonth(e)
    THEN Exit("start_and_end_cannot_be_the_same", s, e)
    ELSE Ret("ok", s, e)

replace_falsey_yearmonth_with_none(s, e) ==
    Ret("ok", IF Truthy(s) THEN s ELSE None, IF Truthy(e) THEN e ELSE None)

\* the error of a range check on one value: "" when it passes
yearmonth_range_error(v) ==
    IF Truthy(v)
    THEN IF ~IntOk(v) THEN "int_yearmonth"
         ELSE IF IntOf(v) < 200000 THEN "date_prior_to_dataset"
         ELSE IF IntOf(v) > IntOf(get_current_datemonth_gmt_plus5)
              THEN "date_is_in_future"
              ELSE ""
    ELSE ""

check_start_yearmonth_in_range(s, e) ==
    IF yearmonth_range_error(s) = ""
    THEN Ret("ok", s, e)
    ELSE Exit(yearmonth_range_error(s), s, e)

check_end_yearmonth_in_range(s, e) ==
    IF yearmonth_range_error(e) = ""
    THEN Ret("ok", s, e)
    ELSE Exit(yearmonth_range_error(e), s, e)

start_after_end(s, e) == IntOf(s) > IntOf(e)

check_start_lessthan_end(s, e) ==
    IF Truthy(s) /\ Truthy(e)
    THEN IF ~IntOk(s) \/ ~IntOk(e)
         THEN Exit("int_yearmonth", s, e)
         ELSE IF start_after_end(s, e) THEN Exit("start_date_after_end_date", s, e) ELSE Ret("ok", s, e)
    ELSE Ret("ok", s, e)

\* check_datetime_input runs each check on what the one before it left in
\* the namespace, unless that one ended the process
then_now(r) ==
    IF r.out = "ok" THEN check_for_now_in_yearmonth(r.start, r.end) ELSE r

then_cli_start(r) ==
    IF r.out = "ok" THEN check_cli_start_yearmonth(r.start, r.end) ELSE r

then_cli_end(r) ==
    IF r.out = "ok" THEN check_cli_end_yearmonth(r.start, r.end) ELSE r

then_same(r) ==
    IF r.out = "ok" THEN check_for_same_start_yearmonth(r.start, r.end) ELSE r

then_falsey(r) ==
    IF r.out = "ok"
    THEN replace_falsey_yearmonth_with_none(r.start, r.end) ELSE r

then_start_in_range(r) ==
    IF r.out = "ok" THEN check_start_yearmonth_in_range(r.start, r.end) ELSE r

then_end_in_range(r) ==
    IF r.out = "ok" THEN check_end_yearmonth_in_range(r.start, r.end) ELSE r

then_lessthan(r) ==
    IF r.out = "ok" THEN check_start_lessthan_end(r.start, r.end) ELSE r

\* the block guarded by `if start_yearmonth or end_yearmonth`
keyword_checks(s, e) ==
    IF Truthy(s) \/ Truthy(e)
    THEN then_same(then_cli_end(then_cli_start(then_now(
             check_for_start_in_yearmonth(s, e)))))
    ELSE Ret("ok", s, e)

check_datetime_input(s, e) ==
    then_lessthan(then_end_in_range(then_start_in_range(then_falsey(
        keyword_checks(s, e)))))

\* ------------------------------------------------------------------- state
VARIABLES
    mode,            \* how main() was called: "cli" (no options) or "api"
    argv,            \* the command line: [flags, start, end]
    pc,              \* where the process is in main / __init__ / run
    args,            \* config.args
    rejected,        \* a date/argument check raised its ValueError
    err,             \* the error that ended the process ("" when none)
    exitStatus,      \* the process's exit status (-1: none, it has not exited)
    result,          \* what run() returned to main
    influx,          \* the _Influx collaborator and its settings exist
    rec,             \* the Record objects: status, base, attempts, lastError
    records_current, \* the Record Set feeding the active stage
    records_next,    \* the Record Set accumulating advanced Records
    active,          \* the stage whose pool is running ("none" between stages)
    pending,         \* the pool's FIFO queue
    inflight,        \* Records owned by a worker
    uncommitted,     \* Records resolved by an attempt, checkpoint not yet written
    store,           \* the Checkpoint Store: file name -> Record -> entry
    runNo,           \* which process invocation this is
    prevCompleted,   \* the previous invocation ran to its end
    invoked,         \* the operations run() has invoked in this process
    finished,        \* the stages that have returned in this process
    calls,           \* the Collaborator calls of this process: <<stage, Record>>
    stageInput,      \* per stage, the Record Set it was handed
    produced         \* the Record Set the last finished operation produced

cfgVars == <<mode, argv, pc, args, rejected, err, exitStatus, result, influx>>
pipeVars == <<rec, records_current, records_next, active, pending, inflight,
              uncommitted, store>>
histVars == <<runNo, prevCompleted, invoked, finished, calls, stageInput,
              produced>>
vars == <<cfgVars, pipeVars, histVars>>

Records == 1..NumRecords

Stages == {"validate", "download", "extract", "load"}

FlagNames == {"V", "D", "X", "C", "I"}

\* ArgsNamespace.__init__: the defaults the parser starts from
ArgsNamespace ==
    [validate_urls |-> TRUE, download_data_archives |-> FALSE,
     extract_csvs |-> FALSE, clean_data |-> FALSE,
     import_to_influxdb |-> FALSE,
     start_yearmonth |-> <<>>, end_yearmonth |-> <<>>]

\* action='store_true': the flag's presence sets the attribute to True, its
\* absence leaves the default
store_true(default, given) == IF given THEN TRUE ELSE default

\* parse_args(namespace=self.arg_namespace) on the five flags
parse_flags(flags) ==
    [validate_urls |-> store_true(ArgsNamespace.validate_urls, "V" \in flags),
     download_data_archives |->
         store_true(ArgsNamespace.download_data_archives, "D" \in flags),
     extract_csvs |-> store_true(ArgsNamespace.extract_csvs, "X" \in flags),
     clean_data |-> store_true(ArgsNamespace.clean_data, "C" \in flags),
     import_to_influxdb |->
         store_true(ArgsNamespace.import_to_influxdb, "I" \in flags)]

\* main(): options.from_api = True exactly when it was handed an Options object
from_api_of(m) == m = "api"

NoArgs == [parsed |-> FALSE]

\* variant: the error is printed and the caller carries on
exit_on_datetime_error_prints_only == [pc |-> "settings", status |-> -1]

\* exit_on_datetime_error: print(err); sys.exit(err).  sys.exit of an
\* exception object prints it and ends the process with status 1.
exit_on_datetime_error == [pc |-> "exited", status |-> 1]

\* an uncaught exception: the interpreter prints the traceback, status 1
uncaught_exception == [pc |-> "crashed", status |-> 1]

\* the fresh Record the builder makes, and "no entry" in the Checkpoint Store
NewRecord == [status |-> "Pending", base |-> "Pending", attempts |-> 0,
              lastError |-> "none"]

NoEntry == [status |-> "absent", base |-> "absent", attempts |-> 0,
            lastError |-> "none"]

Files == {".queue", ".queue.1"}

EmptyStore == [f \in Files |-> [r \in Records |-> NoEntry]]

NoInputs == [k \in Stages |-> {}]

\* the in-memory state of a process that has just started
FreshProcess ==
    /\ pc = "main"
    /\ args = NoArgs
    /\ rejected = FALSE
    /\ err = ""
    /\ exitStatus = -1
    /\ result = "none"
    /\ influx = FALSE
    /\ rec = [r \in Records |-> NewRecord]
    /\ records_current = {}
    /\ records_next = {}
    /\ active = "none"
    /\ pending = <<>>
    /\ inflight = {}
    /\ uncommitted = {}
    /\ invoked = {}
    /\ finished = {}
    /\ calls = {}
    /\ stageInput = NoInputs
    /\ produced = {}

\* ------------------------------------------------------ cli.py: ArgParser
\* ArgParser.__init__ up to parse_args: no arguments at all prints the help
\* and exits 1; each -s / -e value goes through validate_yearmonth_format,
\* which exits on a malformed value; otherwise the namespace holds the
\* defaults overwritten by what was given.
ParseArgs ==
    /\ pc = "main"
    /\ LET s == IF argv.start = None THEN [out |-> "ok", val |-> ArgsNamespace.start_yearmonth]
                ELSE validate_yearmonth_format(argv.start)
           e == IF argv.end = None THEN [out |-> "ok", val |-> ArgsNamespace.end_yearmonth]
                ELSE validate_yearmonth_format(argv.end)
       IN  IF argv.flags = {} /\ argv.start = None /\ argv.end = None
           THEN /\ pc' = "exited"
                /\ exitStatus' = 1
                /\ err' = "usage"
                /\ UNCHANGED <<args, rejected>>
           ELSE IF s.out = "exit" \/ e.out = "exit"
           THEN /\ pc' = exit_on_datetime_error.pc
                /\ exitStatus' = exit_on_datetime_error.status
                /\ err' = "bad_yearmonth_format"
                /\ rejected' = TRUE
                /\ UNCHANGED args
           ELSE /\ pc' = "check"
                /\ args' = [parsed |-> TRUE, from_api |-> from_api_of(mode),
                            start_yearmonth |-> s.val, end_yearmonth |-> e.val]
                           @@ parse_flags(argv.flags)
                /\ UNCHANGED <<exitStatus, err, rejected>>
    /\ UNCHANGED <<mode, argv, result, influx, pipeVars, histVars>>

\* ArgParser.__init__, last line: check_datetime_input on the namespace
CheckDatetimeInput ==
    /\ pc = "check"
    /\ LET r == check_datetime_input(args.start_yearmonth, args.end_yearmonth)
       IN  CASE r.out = "ok" ->
                  /\ pc' = "settings"
                  /\ args' = [args EXCEPT !.start_yearmonth = r.start,
                                          !.end_yearmonth = r.end]
                  /\ UNCHANGED <<exitStatus, err, rejected>>
             [] r.out = "exit" ->
                  /\ pc' = exit_on_datetime_error.pc
                  /\ exitStatus' = exit_on_datetime_error.status
                  /\ err' = r.err
                  /\ rejected' = TRUE
                  /\ UNCHANGED args
             [] r.out = "crash" ->
                  /\ pc' = uncaught_exception.pc
                  /\ exitStatus' = uncaught_exception.status
                  /\ err' = r.err
                  /\ UNCHANGED <<args, rejected>>
    /\ UNCHANGED <<mode, argv, result, influx, pipeVars, histVars>>

\* ------------------------------------------------- the date checks alone
Years == FirstYear..LastYear

Months == {0, 1, NowMonth, 12, 13}

\* what a user can type after -s / -e
RawYearmonths ==
    {YearStr(y) \o <<"-">> \o MonthStr(m) : y \in Years, m \in Months}
      \cup {YearStr(y) : y \in Years}
      \cup {YearStr(NowYear) \o MonthStr(NowMonth), YearStr(FirstYear) \o <<"-", "1">>,
            StrNow, StrStart, <<"N", "O", "W">>, <<>>}

InitDates ==
    /\ mode = "cli"
    /\ argv \in [flags : {{"V"}}, start : RawYearmonths \cup {None},
                 end : RawYearmonths \cup {None}]
    /\ runNo = 1
    /\ prevCompleted = FALSE
    /\ store = EmptyStore
    /\ FreshProcess

NextDates == ParseArgs \/ CheckDatetimeInput

SpecDates == InitDates /\ [][NextDates]_vars

\* ------------------------------------------- histdata_com.py: __init__
\* variant: a queue file name that differs from one invocation to the next
queue_filename_per_run == IF runNo = 1 THEN ".queue" ELSE ".queue.1"

\* config.args['queue_filename']: the Checkpoint Store's file
queue_filename == ".queue"

\* variant: the influx settings keyed on the clean_data flag
influx_required_on_clean(a) == a.clean_data = TRUE

\* config.args["import_to_influxdb"] == 1 (True == 1 in Python)
influx_required(a) == a.import_to_influxdb = TRUE

\* _HistDataCom.__init__ after the parser: the working directory and queue
\* file name, the influx settings and the _Influx collaborator when the
\* import flag is set, the other collaborators always.
LoadSettings ==
    /\ pc = "settings"
    /\ args' = [queue_filename |-> queue_filename] @@ args
    /\ influx' = influx_required(args)
    /\ pc' = "populate"
    /\ UNCHANGED <<mode, argv, rejected, err, exitStatus, result, pipeVars,
                   histVars>>

\* ------------------------------------------------ the stages' collaborators
\* the fixed stage order of the Record status
Rank(s) ==
    CASE s = "Pending" -> 0 [] s = "Validated" -> 1 [] s = "Downloaded" -> 2
      [] s = "Extracted" -> 3 [] s = "Cleaned" -> 4 [] s = "Loaded" -> 5

\* the status a stage's successful attempt leaves
StageResult(k) ==
    CASE k = "validate" -> "Validated" [] k = "download" -> "Downloaded"
      [] k = "extract" -> "Extracted" [] k = "load" -> "Loaded"

\* a Record that takes no further part: loaded, skipped for a permanent
\* error, or failed with its attempts used up
Exhausted(e) == e.status = "Failed" /\ e.attempts >= MaxAttempts

Retired(e) ==
    e.status = "Loaded" \/ e.lastError = "permanent" \/ Exhausted(e)

\* variant: a failed attempt is always retried
ShouldRetryAlways(e) == e.status = "Failed"

\* a failed attempt is retried while the attempt limit is not reached
ShouldRetry(e) == e.status = "Failed" /\ e.attempts < MaxAttempts

\* the Record a prior entry of the Checkpoint Store restores
Reconcile(e) == IF e = NoEntry THEN NewRecord ELSE e

\* Records at or past a stage are not run through it again
NeedsStage(e, k) == Rank(e.base) < Rank(StageResult(k))

\* the Records of a set in the Record Set's stable order
InOrder(S) ==
    CHOOSE q \in [1..Cardinality(S) -> S] :
        \A i, j \in 1..Cardinality(S) : i < j => q[i] < q[j]

Range(q) == {q[i] : i \in 1..Len(q)}

\* ------------------------------------------------- histdata_com.py: run
\* variant: the extract block guarded by the download flag
run_flag_extract_on_download(k) ==
    CASE k = "validate" -> args.validate_urls
      [] k = "download" -> args.download_data_archives
      [] k = "extract" -> args.download_data_archives
      [] k = "load" -> args.import_to_influxdb

\* the flag that guards each stage in run()
run_flag(k) ==
    CASE k = "validate" -> args.validate_urls
      [] k = "download" -> args.download_data_archives
      [] k = "extract" -> args.extract_csvs
      [] k = "load" -> args.import_to_influxdb

\* variant: run() goes from validate_urls straight to the extract block
next_after_call_skips_download(k) ==
    CASE k = "validate" -> "extract"
      [] k = "download" -> IF args.from_api THEN "validate_jays" ELSE "extract"
      [] k = "extract" -> "load"
      [] k = "load" -> "returned"

\* variant: run() returns as soon as a stage has left a Record Failed
next_after_call_returns_on_failure(k) ==
    IF \E r \in Records : rec[r].status = "Failed"
    THEN "returned"
    ELSE CASE k = "validate" -> "download"
           [] k = "download" -> IF args.from_api THEN "validate_jays" ELSE "extract"
           [] k = "extract" -> "load"
           [] k = "load" -> "returned"

\* variant: run() without the from_api branch after download_zips
next_after_call_ignores_from_api(k) ==
    CASE k = "validate" -> "download"
      [] k = "download" -> "extract"
      [] k = "extract" -> "load"
      [] k = "load" -> "returned"

\* where run() goes when a stage's call returns
next_after_call(k) ==
    CASE k = "validate" -> "download"
      [] k = "download" -> IF args.from_api THEN "validate_jays" ELSE "extract"
      [] k = "extract" -> "load"
      [] k = "load" -> "returned"

\* where run() goes when a stage's flag is off
next_after_skip(k) ==
    CASE k = "validate" -> "download"
      [] k = "download" -> "extract"
      [] k = "extract" -> "load"
      [] k = "load" -> "returned"

\* run(), first line: urls.populate_initial_queue builds the Record Set and
\* merges the Checkpoint Store's prior state into it
PopulateInitialQueue ==
    /\ pc = "populate"
    /\ invoked' = invoked \cup {"populate"}
    /\ rec' = [r \in Records |-> Reconcile(store[args.queue_filename][r])]
    /\ records_current' = {r \in Records : ~Retired(rec'[r])}
    /\ records_next' = {}
    /\ produced' = records_current'
    /\ pc' = "validate"
    /\ UNCHANGED <<mode, argv, args, rejected, err, exitStatus, result, influx,
                   active, pending, inflight, uncommitted, store, runNo,
                   prevCompleted, finished, calls, stageInput>>

\* variant: the flag is off and the Record Sets are swapped all the same
SkipStageSwaps(k) ==
    /\ pc = k
    /\ ~run_flag(k)
    /\ pc' = next_after_skip(k)
    /\ records_current' = records_next
    /\ records_next' = {}
    /\ UNCHANGED <<mode, argv, args, rejected, err, exitStatus, result, influx,
                   rec, active, pending, inflight, uncommitted, store,
                   histVars>>

\* an `if config.args[...]` of run() whose flag is off
SkipStage(k) ==
    /\ pc = k
    /\ ~run_flag(k)
    /\ pc' = next_after_skip(k)
    /\ UNCHANGED <<mode, argv, args, rejected, err, exitStatus, result, influx,
                   pipeVars, histVars>>

\* run() calls a stage's operation with (records_current, records_next).
\* self.influx exists only if __init__ created it.
StageBegin(k) ==
    /\ pc = k
    /\ run_flag(k)
    /\ active = "none"
    /\ IF k = "load" /\ ~influx
       THEN /\ pc' = uncaught_exception.pc
            /\ exitStatus' = uncaught_exception.status
            /\ err' = "AttributeError"
            /\ UNCHANGED <<active, pending, records_next, invoked, stageInput>>
       ELSE /\ active' = k
            /\ invoked' = invoked \cup {k}
            /\ stageInput' = [stageInput EXCEPT ![k] = records_current]
            /\ pending' = InOrder({r \in records_current : NeedsStage(rec[r], k)})
            /\ records_next' = records_current \ Range(pending')
            /\ UNCHANGED <<pc, exitStatus, err>>
    /\ UNCHANGED <<mode, argv, args, rejected, result, influx, rec,
                   records_current, inflight, uncommitted, store, runNo,
                   prevCompleted, finished, calls, produced>>

\* a free worker of the pool takes the Record at the head of the queue and
\* calls the stage's Collaborator
WorkerTake(r) ==
    /\ active # "none"
    /\ pending # <<>>
    /\ r = Head(pending)
    /\ Cardinality(inflight) < PoolSize
    /\ pending' = Tail(pending)
    /\ inflight' = inflight \cup {r}
    /\ calls' = calls \cup {<<active, r>>}
    /\ UNCHANGED <<cfgVars, rec, records_current, records_next, active,
                   uncommitted, store, runNo, prevCompleted, invoked, finished,
                   stageInput, produced>>

\* the attempt yields Advanced(updatedRecord)
AttemptAdvanced(r) ==
    /\ active # "none"
    /\ r \in inflight
    /\ rec' = [rec EXCEPT ![r] = [status |-> StageResult(active),
                                  base |-> StageResult(active),
                                  attempts |-> 0, lastError |-> "none"]]
    /\ inflight' = inflight \ {r}
    /\ uncommitted' = uncommitted \cup {r}
    /\ records_next' = records_next \cup {r}
    /\ UNCHANGED <<cfgVars, records_current, active, pending, store, histVars>>

\* the attempt yields Failed(error)
AttemptFailed(r) ==
    /\ active # "none"
    /\ r \in inflight
    /\ rec' = [rec EXCEPT ![r].status = "Failed",
                          ![r].attempts = @ + 1,
                          ![r].lastError = "transient"]
    /\ inflight' = inflight \ {r}
    /\ uncommitted' = uncommitted \cup {r}
    /\ UNCHANGED <<cfgVars, records_current, records_next, active, pending,
                   store, histVars>>

\* the attempt yields Skipped(reason): a permanent error, never retried
AttemptSkipped(r) ==
    /\ active # "none"
    /\ r \in inflight
    /\ rec' = [rec EXCEPT ![r].lastError = "permanent"]
    /\ inflight' = inflight \ {r}
    /\ uncommitted' = uncommitted \cup {r}
    /\ UNCHANGED <<cfgVars, records_current, records_next, active, pending,
                   store, histVars>>

\* the Orchestrator commits the attempt's outcome to the Checkpoint Store
\* and queues a retry while the attempt limit allows one
Commit(r) ==
    /\ active # "none"
    /\ r \in uncommitted
    /\ store' = [store EXCEPT ![args.queue_filename][r] = rec[r]]
    /\ uncommitted' = uncommitted \ {r}
    /\ pending' = IF ShouldRetry(rec[r]) THEN Append(pending, r) ELSE pending
    /\ UNCHANGED <<cfgVars, rec, records_current, records_next, active,
                   inflight, histVars>>

\* the stage's call returns once every Record is resolved and committed; the
\* next Record Set becomes the current one
StageEnd(k) ==
    /\ active = k
    /\ pending = <<>> /\ inflight = {} /\ uncommitted = {}
    /\ records_current' = records_next
    /\ records_next' = {}
    /\ produced' = records_next
    /\ active' = "none"
    /\ finished' = finished \cup {k}
    /\ pc' = next_after_call(k)
    /\ UNCHANGED <<mode, argv, args, rejected, err, exitStatus, result, influx,
                   rec, pending, inflight, uncommitted, store, runNo,
                   prevCompleted, invoked, calls, stageInput>>

\* run(), from_api branch: api.validate_jays
ValidateJays ==
    /\ pc = "validate_jays"
    /\ invoked' = invoked \cup {"validate_jays"}
    /\ pc' = "merge_jays"
    /\ UNCHANGED <<mode, argv, args, rejected, err, exitStatus, result, influx,
                   pipeVars, runNo, prevCompleted, finished, calls, stageInput,
                   produced>>

\* run(), from_api branch: return api.merge_jays(records_current)
MergeJays ==
    /\ pc = "merge_jays"
    /\ invoked' = invoked \cup {"merge_jays"}
    /\ result' = "merged"
    /\ pc' = "returned"
    /\ UNCHANGED <<mode, argv, args, rejected, err, exitStatus, influx,
                   pipeVars, runNo, prevCompleted, finished, calls, stageInput,
                   produced>>

\* main(): without options it drops run()'s value and returns None, which
\* `sys.exit(main())` turns into status 0; with options it returns the value
\* to its caller.
main_exit_status(m) == IF m = "cli" THEN 0 ELSE -1

MainReturn ==
    /\ pc = "returned"
    /\ exitStatus' = main_exit_status(mode)
    /\ pc' = "done"
    /\ UNCHANGED <<mode, argv, args, rejected, err, result, influx, pipeVars,
                   histVars>>

RunPcs == {"populate", "validate", "download", "validate_jays", "merge_jays",
           "extract", "load"}

\* a shutdown signal or a crash at any point of run(): the process ends and
\* with it everything it held in memory; the Checkpoint Store stays as the
\* last commit left it
Interrupt ==
    /\ pc \in RunPcs
    /\ pc' = "interrupted"
    /\ exitStatus' = 130
    /\ args' = NoArgs
    /\ result' = "none"
    /\ influx' = FALSE
    /\ rec' = [r \in Records |-> NewRecord]
    /\ records_current' = {}
    /\ records_next' = {}
    /\ active' = "none"
    /\ pending' = <<>>
    /\ inflight' = {}
    /\ uncommitted' = {}
    /\ invoked' = {}
    /\ finished' = {}
    /\ calls' = {}
    /\ stageInput' = NoInputs
    /\ produced' = {}
    /\ UNCHANGED <<mode, argv, rejected, err, store, runNo, prevCompleted>>

\* the program is started again with the same command line; only the
\* Checkpoint Store survives
Restart ==
    /\ pc \in {"done", "interrupted"}
    /\ runNo < MaxRuns
    /\ runNo' = runNo + 1
    /\ prevCompleted' = (pc = "done")
    /\ pc' = "main"
    /\ args' = NoArgs
    /\ rejected' = FALSE
    /\ err' = ""
    /\ exitStatus' = -1
    /\ result' = "none"
    /\ influx' = FALSE
    /\ rec' = [r \in Records |-> NewRecord]
    /\ records_current' = {}
    /\ records_next' = {}
    /\ active' = "none"
    /\ pending' = <<>>
    /\ inflight' = {}
    /\ uncommitted' = {}
    /\ invoked' = {}
    /\ finished' = {}
    /\ calls' = {}
    /\ stageInput' = NoInputs
    /\ produced' = {}
    /\ UNCHANGED <<mode, argv, store>>

\* ---------------------------------------------------------- specification
ValidRange == [start |-> YearStr(FirstYear + 1) \o <<"-">> \o MonthStr(1),
               end |-> YearStr(NowYear) \o <<"-">> \o MonthStr(1)]

\* the command lines the pipeline is explored under: every combination of
\* -D -X -I with an accepted range, and one command line for each way the
\* parser ends the process
SpecCommandLines ==
    {[flags |-> f, start |-> ValidRange.start, end |-> ValidRange.end] :
        f \in SUBSET {"D", "X", "I"}}
      \cup {[flags |-> {}, start |-> None, end |-> None],
            [flags |-> {"V", "C"}, start |-> None, end |-> None],
            [flags |-> {"V"}, start |-> ValidRange.end, end |-> ValidRange.start],
            [flags |-> {"V"}, start |-> YearStr(FirstYear) \o <<"-", "1">>, end |-> None],
            [flags |-> {"V"}, start |-> None, end |-> ValidRange.end]}

Init ==
    /\ mode \in {"cli", "api"}
    /\ argv \in SpecCommandLines
    /\ runNo = 1
    /\ prevCompleted = FALSE
    /\ store = EmptyStore
    /\ FreshProcess

Next ==
    \/ ParseArgs
    \/ CheckDatetimeInput
    \/ LoadSettings
    \/ PopulateInitialQueue
    \/ \E k \in Stages : SkipStage(k)
    \/ \E k \in Stages : StageBegin(k)
    \/ \E r \in Records : WorkerTake(r)
    \/ \E r \in Records : AttemptAdvanced(r)
    \/ \E r \in Records : AttemptFailed(r)
    \/ \E r \in Records : AttemptSkipped(r)
    \/ \E r \in Records : Commit(r)
    \/ \E k \in Stages : StageEnd(k)
    \/ ValidateJays
    \/ MergeJays
    \/ MainReturn
    \/ Interrupt
    \/ Restart

Spec == Init /\ [][Next]_vars

\* ------------------------------------------------------------------ claims

\* the notions the claims are stated in
Enabled(k) ==
    CASE k = "validate" -> args.validate_urls = TRUE
      [] k = "download" -> args.download_data_archives = TRUE
      [] k = "extract" -> args.extract_csvs = TRUE
      [] k = "load" -> args.import_to_influxdb = TRUE

Before(j, k) == Rank(StageResult(j)) < Rank(StageResult(k))

RankOrAbsent(s) == IF s = "absent" THEN -1 ELSE Rank(s)

Committed == store[".queue"]

\* Record q was resolved by stage k: advanced to or past it, or retired
ResolvedBy(e, k) ==
    RankOrAbsent(e.base) >= Rank(StageResult(k)) \/ Retired(e)

RunEnded == pc \in {"returned", "done"}

\* _HistDataCom.__init__ has returned
Constructed == args.parsed /\ "queue_filename" \in DOMAIN args

\* a Record the pipeline has dropped: skipped, or failed for good
Dropped(e) == e.lastError = "permanent" \/ Exhausted(e)

\* Record r was attempted in this process and is Failed
FailedInRun(r) == rec[r].status = "Failed" /\ \E k \in Stages : <<k, r>> \in calls

\* the stages run() gets to: all of them, except extract and load when the
\* from_api branch after download_zips returns
Reached(k) ==
    ~(k \in {"extract", "load"} /\ args.from_api /\ Enabled("download"))

\* C1: no attempt of stage K+1 on a Record is in progress unless every
\* enabled earlier stage K has returned in this process, has resolved every
\* Record it was handed, and the Record's stage-K outcome is in the
\* Checkpoint Store.  Holds in every reachable state, interrupted runs and
\* the runs that follow them included.
C1_StageBarrier ==
    \A r \in inflight :
        \A j \in Stages :
            (args.parsed /\ Before(j, active) /\ Enabled(j)) =>
                /\ j \in finished
                /\ RankOrAbsent(Committed[r].base) >= Rank(StageResult(j))
                /\ \A q \in stageInput[j] : ResolvedBy(Committed[q], j)

\* two Records are in flight in download after an interrupted run
C1_Witness ==
    /\ active = "download"
    /\ Cardinality(inflight) = 2
    /\ runNo = 2
    /\ ~prevCompleted

\* C2: a run that follows a completed run, with the same command line and
\* the Checkpoint Store as that run left it, makes no Collaborator call.
C2_ResumeIdempotent ==
    (runNo > 1 /\ prevCompleted) => calls = {}

\* the second run has ended; the first had downloaded a Record
C2_Witness ==
    /\ runNo = 2
    /\ prevCompleted
    /\ pc = "done"
    /\ "download" \in finished
    /\ \E r \in Records : Committed[r].base = "Downloaded"

C5_DisabledStageIdentity ==
    /\ [](active # "none" => stageInput[active] = produced)
    /\ [][\A k \in Stages :
            (pc = k /\ args.parsed /\ ~Enabled(k) /\ pc' # "interrupted") =>
                /\ rec' = rec
                /\ records_current' = records_current
                /\ records_next' = records_next]_vars

\* load runs on Records that passed a disabled extract
C5_Witness ==
    /\ active = "load"
    /\ ~Enabled("extract")
    /\ "download" \in finished
    /\ stageInput["load"] # {}
    /\ \A r \in stageInput["load"] : rec[r].base = "Downloaded"

\* C6: once a date/argument check has rejected the input, the process has
\* exited with a non-zero status and no operation of run() has been invoked.
C6_ConfigErrorFatal ==
    rejected =>
        /\ pc = "exited"
        /\ exitStatus > 0
        /\ invoked = {}
        /\ calls = {}

\* check_datetime_input rejected a range whose end is before its start
C6_Witness ==
    /\ rejected
    /\ err = "start_date_after_end_date"
    /\ pc = "exited"

\* C7: after a command-line run, the exit status is non-zero exactly when
\* some Record ended in the terminal Failed state.
C7_ExitReflectsFailure ==
    (mode = "cli" /\ pc = "done") =>
        ((exitStatus # 0) <=> \E r \in Records : Exhausted(rec[r]))

\* C8: within a process, up to its end, a Record's status changes only to Failed or to a
\* status later in the stage order than the last one it completed; a Failed
\* Record is taken up again only below the attempt limit, so its attempt
\* count never exceeds the limit; and a Record that has used up its attempts
\* is in no queue, is not handed to any later stage, and stays that way.
C8_StatusMonotone ==
    [][(runNo' = runNo /\ pc' # "interrupted") =>
        \A r \in Records :
            /\ \/ rec'[r].status = rec[r].status
               \/ rec'[r].status = "Failed"
               \/ /\ Rank(rec'[r].status) > Rank(rec[r].base)
                  /\ rec[r].status # "Failed"
                       => Rank(rec'[r].status) > Rank(rec[r].status)
            /\ rec'[r].attempts <= MaxAttempts
            /\ (r \in inflight' /\ r \notin inflight /\ rec[r].status = "Failed")
                   => rec[r].attempts < MaxAttempts
            /\ Exhausted(rec[r]) =>
                   /\ Exhausted(rec'[r])
                   /\ r \notin Range(pending') \cup inflight' \cup records_next'
                   /\ \A k \in Stages :
                          stageInput'[k] # stageInput[k] => r \notin stageInput'[k]]_vars

\* a Record failed, was retried and advanced; another used up its attempts
C8_Witness ==
    /\ \E r \in Records : Exhausted(rec[r]) /\ FailedInRun(r)
    /\ \E q \in Records :
          /\ rec[q].status = "Downloaded"
          /\ Committed[q].status = "Failed"
          /\ Committed[q].base = "Validated"
    /\ active = "download"

\* C9: from the end of __init__ on, the influx settings and the _Influx
\* collaborator exist exactly when import_to_influxdb is on; the load stage
\* is invoked only with them, and never fails for want of them.
C9_CredentialsIffLoad ==
    Constructed =>
        /\ influx <=> Enabled("load")
        /\ "load" \in invoked => influx
        /\ err # "AttributeError"

\* the load stage is running on its collaborator
C9_Witness ==
    /\ active = "load"
    /\ influx
    /\ inflight # {}
NowInt == IntOf(get_current_datemonth_gmt_plus5)

YearmonthInRange(v) ==
    Truthy(v) => IntOk(v) /\ IntOf(v) >= 200000 /\ IntOf(v) <= NowInt

Accepted == pc = "settings"

\* C10: whenever check_datetime_input returns without exiting and both
\* start_yearmonth and end_yearmonth are set, start is strictly before end;
\* and whichever of the two is set is not prior to 2000 (>= 200000) and not
\* later than the current year-month.
C10_AcceptedRangeWellFormed ==
    Accepted =>
        /\ (Truthy(args.start_yearmonth) /\ Truthy(args.end_yearmonth)) =>
              /\ args.start_yearmonth # args.end_yearmonth
              /\ IntOk(args.start_yearmonth) /\ IntOk(args.end_yearmonth)
              /\ IntOf(args.start_yearmonth) < IntOf(args.end_yearmonth)
        /\ YearmonthInRange(args.start_yearmonth)
        /\ YearmonthInRange(args.end_yearmonth)

\* a range given as two year-months in the same year was accepted
C10_Witness ==
    /\ Accepted
    /\ Truthy(args.start_yearmonth) /\ Truthy(args.end_yearmonth)
    /\ Truthy(argv.start) /\ Truthy(argv.end)
    /\ get_year_from_datemonth(args.start_yearmonth)
         = get_year_from_datemonth(args.end_yearmonth)

\* check_datetime_input has been called and has ended
DatetimeChecked == args.parsed /\ pc # "check"

\* -e was given a value
EndGiven == argv.end # None /\ Truthy(argv.end)

\* -s was not given, or was given empty
StartEmpty == argv.start = None \/ ~Truthy(argv.start)

\* -s was given a year without a month
StartBareYear ==
    argv.start # None /\ Len(argv.start) = 4 /\ AllDigits(argv.start)

\* C11: once check_datetime_input has ended on an input with an end and an
\* empty start, it has ended in exit_on_datetime_error with the 'cannot
\* include -e without specifying a start year-month' error; on an input with
\* a bare-year start and an end, with the 'cannot include -e when specifying
\* a single year' error; in neither case was the input accepted or did the
\* check end in any other failure.
C11_EndWithoutStartRejected ==
    DatetimeChecked =>
        /\ (EndGiven /\ StartEmpty) =>
              rejected /\ pc = "exited" /\ err = "no_start_yearmonth"
        /\ (EndGiven /\ StartBareYear) =>
              rejected /\ pc = "exited" /\ err = "no_end_yearmonth"

\* the operations of run() that were invoked, populate_initial_queue aside
InvokedOps == invoked \ {"populate"}

====
